---- MODULE Spec2Model ----
(***************************************************************************)
(* Model of src/preprocessing.py: class Preprocessing, one object that     *)
(* owns one 2-D pixel buffer (image_array) loaded from band 1 of a raster  *)
(* file and mutates it in place through rotate / resize / crop / noise,    *)
(* with save / show / accessor methods and a process-wide log file.        *)
(*                                                                         *)
(* Every method call is one atomic action (the program is single-threaded  *)
(* and synchronous).  The library calls are modelled by what they compute: *)
(*   - arrays are records [dtype, rows, cols, den, data] with data the     *)
(*     row-major sequence of samples, each sample being data[i] / den;     *)
(*   - paths are sequences of tokens in which "." and "/" are tokens of    *)
(*     their own, so that os.path.splitext and the extension lookup of     *)
(*     cv2.imwrite can be computed;                                        *)
(*   - non-integral numbers use fixed point: noise means in tenths,        *)
(*     variances in hundredths, cos/sin as quotients of integers.          *)
(* Log lines keep level, message and the formatted arguments; the          *)
(* timestamp of the log format is left out, and the log file is taken to   *)
(* be writable.  Interpolated samples follow the reference fixed-point     *)
(* arithmetic of the library; no property below depends on their low bits. *)
(* The demonstration script src/rotate.py creates no Preprocessing object  *)
(* and is not modelled.                                                    *)
(***************************************************************************)
EXTENDS Integers, Sequences, FiniteSets, TLC

VARIABLES
    pc,           \* "init" before Preprocessing(...), "ready", "exited" (sys.exit), "raised"
    exit_code,    \* status given to sys.exit; 0 while the process runs
    image_path,   \* self.image_path
    image_array,  \* self.image_array
    log,          \* preprocessing.log: the sequence of lines written so far
    files,        \* the file system: path -> [bands, arr]
    calls,        \* number of method calls made on the object
    last          \* the call just made: its name and arguments, the buffer, path,
                  \* files and log length it started from, and what happened in it

vars == <<pc, exit_code, image_path, image_array, log, files, calls, last>>

(***************************************************************************)
(* Bounds of the model.                                                    *)
(***************************************************************************)
MaxCalls == 2

(***************************************************************************)
(* Arithmetic                                                              *)
(***************************************************************************)
Min(a, b) == IF a <= b THEN a ELSE b
Max(a, b) == IF a >= b THEN a ELSE b

\* floor(p / q) and the matching remainder in 0..q-1, for q > 0
FloorDiv(p, q) == IF p >= 0 THEN p \div q ELSE -((-p + q - 1) \div q)
FloorMod(p, q) == p - q * FloorDiv(p, q)

\* cvRound / lrint of the rational p / q (q > 0): round half to even
RoundHalfEven(p, q) ==
    LET f == FloorDiv(p, q)
        r == FloorMod(p, q)
    IN  IF 2 * r < q THEN f
        ELSE IF 2 * r > q THEN f + 1
        ELSE IF f % 2 = 0 THEN f ELSE f + 1

\* C / numpy conversion of the rational p / q to an integer: toward zero
TruncDiv(p, q) == IF p >= 0 THEN p \div q ELSE -((-p) \div q)

SeqMin(s) == CHOOSE m \in {s[i] : i \in 1..Len(s)} : \A i \in 1..Len(s) : m <= s[i]
SeqMax(s) == CHOOSE m \in {s[i] : i \in 1..Len(s)} : \A i \in 1..Len(s) : m >= s[i]

(***************************************************************************)
(* Arrays (numpy.ndarray, 2-D)                                             *)
(***************************************************************************)
\* Sample i has the value data[i] / den; den = 1 for the integer dtypes, and a
\* floating-point array carries the common denominator of its samples.
Array(dtype, rows, cols, den, data) ==
    [dtype |-> dtype, rows |-> rows, cols |-> cols, den |-> den, data |-> data]

\* the attribute before __init__ has assigned it
NoArray == Array("none", 0, 0, 1, <<>>)

IsEmpty(a) == a.rows = 0 \/ a.cols = 0

\* a[r, c], 0-based
At(a, r, c) == a.data[r * a.cols + c + 1]

\* build a rows x cols array from a sample function f(r, c)
Build(dtype, rows, cols, F(_, _)) ==
    Array(dtype, rows, cols, 1,
          [i \in 1..(rows * cols) |-> F((i - 1) \div cols, (i - 1) % cols)])

\* what a library call gives back: a value, or the exception it raised
Returned(v) == [ok |-> TRUE, val |-> v, exc |-> ""]
Raised(e) == [ok |-> FALSE, val |-> NoArray, exc |-> e]

(***************************************************************************)
(* cv2.normalize(src, None, 0, 255, cv2.NORM_MINMAX)                       *)
(* dst = (src - smin) * 255 / (smax - smin) in the type of src; a constant *)
(* array (smax = smin) gives scale 0 and so all zeros.  Integer types are  *)
(* rounded by saturate_cast (cvRound); floating types keep the quotient.   *)
(* Complex arrays are not accepted by the binding.                         *)
(***************************************************************************)
cv2_normalize(src) ==
    IF src.dtype \notin {"uint8", "int16", "float32"} THEN Raised("TypeError")
    ELSE IF IsEmpty(src) THEN Returned(src)
    ELSE
      LET smin == SeqMin(src.data)
          smax == SeqMax(src.data)
          span == smax - smin
      IN  IF span = 0
          THEN Returned([src EXCEPT !.den = 1,
                                    !.data = [i \in DOMAIN src.data |-> 0]])
          ELSE IF src.dtype = "float32"
          THEN Returned([src EXCEPT !.den = span,
                                    !.data = [i \in DOMAIN src.data |->
                                                (src.data[i] - smin) * 255]])
          ELSE Returned([src EXCEPT !.den = 1,
                                    !.data = [i \in DOMAIN src.data |->
                                        RoundHalfEven((src.data[i] - smin) * 255, span)]])

\* ndarray.astype(np.uint8): truncate toward zero, then wrap modulo 256
astype_uint8(a) ==
    [a EXCEPT !.dtype = "uint8", !.den = 1,
              !.data = [i \in DOMAIN a.data |-> FloorMod(TruncDiv(a.data[i], a.den), 256)]]

(***************************************************************************)
(* cv2.equalizeHist(src): 8-bit single channel only.  With i the smallest  *)
(* value present: a constant image is returned as it is, otherwise         *)
(* lut[v] = cvRound(255 * #{p : i < p <= v} / (total - hist[i])).          *)
(***************************************************************************)
cv2_equalizeHist(src) ==
    IF src.dtype # "uint8" THEN Raised("cv2.error")
    ELSE IF IsEmpty(src) THEN Returned(src)
    ELSE
      LET lo == SeqMin(src.data)
          total == Len(src.data)
          hlo == Cardinality({i \in DOMAIN src.data : src.data[i] = lo})
          cum(v) == Cardinality({i \in DOMAIN src.data :
                                    src.data[i] > lo /\ src.data[i] <= v})
      IN  IF hlo = total THEN Returned(src)
          ELSE Returned([src EXCEPT !.data = [i \in DOMAIN src.data |->
                            Min(255, RoundHalfEven(255 * cum(src.data[i]), total - hlo))]])

(***************************************************************************)
(* cv2.getRotationMatrix2D(center, angle, 1) and cv2.warpAffine            *)
(* The matrix is kept by its parameters: cos = c / k, sin = s / k and the  *)
(* centre (cx2 / 2, cy2 / 2).  The cosines are exact for multiples of 90   *)
(* degrees and four-digit approximations otherwise.                        *)
(***************************************************************************)
Trig(angle) ==
    CASE angle = 0 -> [c |-> 10000, s |-> 0, k |-> 10000]
      [] angle = 45 -> [c |-> 7071, s |-> 7071, k |-> 10000]
      [] angle = 90 -> [c |-> 0, s |-> 10000, k |-> 10000]
      [] angle = 180 -> [c |-> -10000, s |-> 0, k |-> 10000]
      [] angle = 270 -> [c |-> 0, s |-> -10000, k |-> 10000]

cv2_getRotationMatrix2D(cx2, cy2, angle) ==
    [c |-> Trig(angle).c, s |-> Trig(angle).s, k |-> Trig(angle).k,
     cx2 |-> cx2, cy2 |-> cy2]

\* src sample with the default border (BORDER_CONSTANT, value 0)
Border0(src, r, c) ==
    IF r >= 0 /\ r < src.rows /\ c >= 0 /\ c < src.cols THEN At(src, r, c) ELSE 0

(***************************************************************************)
(* warpAffine with the default flags (INTER_LINEAR): the matrix is         *)
(* inverted, stepped in fixed point with 10 fractional bits, the source    *)
(* position is rounded to 1/32 pixel and the four neighbours are blended   *)
(* with weights of sum 2^15.  dsize is (width, height).                    *)
(***************************************************************************)
cv2_warpAffine(src, M, width, height) ==
    IF src.dtype # "uint8" \/ IsEmpty(src) \/ width <= 0 \/ height <= 0
    THEN Raised("cv2.error")
    ELSE
      LET adelta(x) == RoundHalfEven(M.c * x * 1024, M.k)
          bdelta(x) == RoundHalfEven(M.s * x * 1024, M.k)
          X0(y) == RoundHalfEven(
                     ((M.k - M.c) * M.cx2 + M.s * M.cy2 - 2 * M.s * y) * 1024,
                     2 * M.k) + 16
          Y0(y) == RoundHalfEven(
                     ((M.k - M.c) * M.cy2 - M.s * M.cx2 + 2 * M.c * y) * 1024,
                     2 * M.k) + 16
          pixel(y, x) ==
            LET X == FloorDiv(X0(y) + adelta(x), 32)
                Y == FloorDiv(Y0(y) + bdelta(x), 32)
                sx == FloorDiv(X, 32)
                sy == FloorDiv(Y, 32)
                fx == FloorMod(X, 32)
                fy == FloorMod(Y, 32)
                sum == (32 - fx) * (32 - fy) * 32 * Border0(src, sy, sx)
                     + fx * (32 - fy) * 32 * Border0(src, sy, sx + 1)
                     + (32 - fx) * fy * 32 * Border0(src, sy + 1, sx)
                     + fx * fy * 32 * Border0(src, sy + 1, sx + 1)
            IN  FloorDiv(sum + 16384, 32768)
      IN  Returned(Build("uint8", height, width, pixel))

(***************************************************************************)
(* cv2.resize(src, (width, height), interpolation=...)                     *)
(* INTER_NEAREST (0) and INTER_LINEAR (1), the latter in the 8-bit fixed   *)
(* point of the reference implementation (coefficients of 11 bits).        *)
(***************************************************************************)
INTER_LINEAR == 1

ResizeCoord(d, ssize, dsize) ==
    \* source position of destination index d: ((2d + 1) * ssize - dsize) / (2 * dsize)
    LET num == (2 * d + 1) * ssize - dsize
        s0 == FloorDiv(num, 2 * dsize)
        f == RoundHalfEven(FloorMod(num, 2 * dsize) * 2048, 2 * dsize)
    IN  [s |-> s0, f |-> f]

cv2_resize(src, width, height, interpolation) ==
    IF src.dtype # "uint8" \/ IsEmpty(src) \/ width <= 0 \/ height <= 0
    THEN Raised("cv2.error")
    ELSE IF interpolation = INTER_LINEAR
    THEN
      LET hres(r, dx) ==
            LET p == ResizeCoord(dx, src.cols, width)
            IN  IF p.s < 0 THEN At(src, r, 0) * 2048
                ELSE IF p.s >= src.cols - 1 THEN At(src, r, src.cols - 1) * 2048
                ELSE At(src, r, p.s) * (2048 - p.f) + At(src, r, p.s + 1) * p.f
          pixel(dy, dx) ==
            LET q == ResizeCoord(dy, src.rows, height)
                r0 == Max(0, Min(q.s, src.rows - 1))
                r1 == Max(0, Min(q.s + 1, src.rows - 1))
                S0 == hres(r0, dx) \div 16
                S1 == hres(r1, dx) \div 16
            IN  ((((2048 - q.f) * S0) \div 65536) + ((q.f * S1) \div 65536) + 2) \div 4
      IN  Returned(Build("uint8", height, width, pixel))
    ELSE
      LET pixel(dy, dx) ==
            At(src, Min((dy * src.rows) \div height, src.rows - 1),
                    Min((dx * src.cols) \div width, src.cols - 1))
      IN  Returned(Build("uint8", height, width, pixel))

(***************************************************************************)
(* a[y : y + height, x : x + width]                                        *)
(***************************************************************************)
\* slice(start, stop).indices(n): where the slice starts and stops
SliceIndex(i, n) == IF i < 0 THEN Max(i + n, 0) ELSE Min(i, n)

Slice2D(a, rstart, rstop, cstart, cstop) ==
    LET r0 == SliceIndex(rstart, a.rows)
        r1 == Max(SliceIndex(rstop, a.rows), r0)
        c0 == SliceIndex(cstart, a.cols)
        c1 == Max(SliceIndex(cstop, a.cols), c0)
        pixel(r, c) == At(a, r0 + r, c0 + c)
    IN  [Build(a.dtype, r1 - r0, c1 - c0, pixel) EXCEPT !.den = a.den]

(***************************************************************************)
(* numpy: random.normal, +, clip                                           *)
(* Means and noise samples are in tenths, variances in hundredths.  The    *)
(* generator is a table of standard-normal draws read from a seed.         *)
(***************************************************************************)
\* var ** 0.5: a float for var >= 0 (tenths), a complex number otherwise
Sqrt10(var100) == CHOOSE s \in 0..var100 : s * s = var100

StdNormal(seed, i) ==
    LET z == <<-1, 2, 0, 1, -2>>
    IN  z[((seed + i) % Len(z)) + 1]

\* np.random.normal(mean, sigma, shape): mean + sigma * z per sample, in tenths
np_random_normal(mean10, var100, rows, cols, seed) ==
    IF var100 < 0 THEN Raised("TypeError")
    ELSE Returned(Array("float64", rows, cols, 10,
                        [i \in 1..(rows * cols) |->
                            mean10 + Sqrt10(var100) * StdNormal(seed, i)]))

\* a + g for arrays of one shape; the result is float64
np_add(a, g) ==
    Array("float64", a.rows, a.cols, a.den * g.den,
          [i \in DOMAIN a.data |-> a.data[i] * g.den + g.data[i] * a.den])

np_clip(a, lo, hi) ==
    [a EXCEPT !.data = [i \in DOMAIN a.data |->
                          Max(lo * a.den, Min(hi * a.den, a.data[i]))]]


(***************************************************************************)
(* Paths and files                                                         *)
(***************************************************************************)
\* an optional argument: None, or a value
None == [some |-> FALSE, val |-> <<>>]
Some(v) == [some |-> TRUE, val |-> v]

\* Python truth value of save_path: None and the empty string are false
Truthy(opt) == opt.some /\ opt.val # <<>>

\* str.rfind: the last position of tok in p, 0 when it is nowhere
RFind(p, tok) ==
    LET hits == {i \in 1..Len(p) : p[i] = tok}
    IN  IF hits = {} THEN 0 ELSE CHOOSE i \in hits : \A j \in hits : j <= i

\* os.path.splitext(p): the extension starts at the last dot of the last
\* component, unless only dots come before it in that component
os_path_splitext(p) ==
    LET sepIndex == RFind(p, "/")
        dotIndex == RFind(p, ".")
    IN  IF dotIndex > sepIndex
           /\ \E i \in (sepIndex + 1)..(dotIndex - 1) : p[i] # "."
        THEN [base |-> SubSeq(p, 1, dotIndex - 1), ext |-> SubSeq(p, dotIndex, Len(p))]
        ELSE [base |-> p, ext |-> <<>>]

\* the sample files: the rasters on disk when the process starts
SrcA == <<"a", ".", "tif">>
SrcB == <<"d", ".", "v", "/", "b">>
SrcC == <<"c", ".", "png">>
SrcE == <<"e", ".", "tif">>
SrcZ == <<"z", ".", "tif">>
Missing == <<"m", ".", "tif">>

Disk ==
    (SrcA :> [bands |-> 1, arr |-> Array("uint8", 2, 3, 1, <<0, 50, 100, 150, 200, 255>>)])
    @@ (SrcB :> [bands |-> 1, arr |-> Array("int16", 2, 2, 1, <<-100, 0, 300, 1000>>)])
    @@ (SrcC :> [bands |-> 1, arr |-> Array("float32", 1, 3, 1, <<0, 2, 7>>)])
    @@ (SrcE :> [bands |-> 1, arr |-> Array("complex64", 1, 1, 1, <<1>>)])
    @@ (SrcZ :> [bands |-> 0, arr |-> NoArray])

\* the directories that exist
Dirs == {<<>>, <<"d", ".", "v">>}

\* the extensions cv2 has an encoder for
Encoders == {<<".", "tif">>, <<".", "png">>}

DirName(p) == SubSeq(p, 1, RFind(p, "/") - 1)

(***************************************************************************)
(* cv2.imwrite(path, img): raises on an empty image and when no encoder    *)
(* matches the text after the last dot of the path; returns False, without *)
(* raising, when the file cannot be opened for writing; else writes the    *)
(* image and returns True.                                                 *)
(***************************************************************************)
cv2_imwrite(fs, path, img) ==
    IF IsEmpty(img) THEN [exc |-> "cv2.error", ret |-> FALSE, fs |-> fs]
    ELSE IF RFind(path, ".") = 0
            \/ SubSeq(path, RFind(path, "."), Len(path)) \notin Encoders
    THEN [exc |-> "cv2.error", ret |-> FALSE, fs |-> fs]
    ELSE IF DirName(path) \notin Dirs
    THEN [exc |-> "", ret |-> FALSE, fs |-> fs]
    ELSE [exc |-> "", ret |-> TRUE,
          fs |-> [q \in (DOMAIN fs) \cup {path} |->
                    IF q = path THEN [bands |-> 1, arr |-> img] ELSE fs[q]]]

(***************************************************************************)
(* Logging and exceptions                                                  *)
(***************************************************************************)
\* one line of preprocessing.log: "<asctime>:<levelname>:<message>"
Line(level, msg, args) == [level |-> level, msg |-> msg, args |-> args]

logging_info(lg, msg, args) == Append(lg, Line("INFO", msg, args))
logging_error(lg, msg, args) == Append(lg, Line("ERROR", msg, args))

\* the classes "except Exception" catches; KeyboardInterrupt and SystemExit
\* derive from BaseException only
ExceptionClasses == {"cv2.error", "TypeError", "AttributeError",
                     "FileNotFoundError", "RuntimeError"}

ExceptException(exc) == exc \in ExceptionClasses


(***************************************************************************)
(* The methods of Preprocessing, as functions of the object's state.       *)
(* Each gives the outcome of one call:                                     *)
(*   image, log, files   the state it leaves                               *)
(*   computed            the library steps before any save all succeeded   *)
(*   write, target       what cv2.imwrite did ("none", "ok", "false" for a *)
(*                       False return, "raise") and on which path          *)
(*   libfail             some library step of the call failed              *)
(*   escaped             the exception that left the method, "" if none    *)
(***************************************************************************)
Outcome(img, lg, fs, computed, write, target, libfail, escaped) ==
    [image |-> img, log |-> lg, files |-> fs, computed |-> computed,
     write |-> write, target |-> target, libfail |-> libfail, escaped |-> escaped]

\* save_image as it would be if it wrote to the source path whatever it is given
SavePathIgnored(save_path, ipath) == ipath

\* line 70: path = save_path if save_path else self.image_path
SavePath(save_path, ipath) == IF Truthy(save_path) THEN save_path.val ELSE ipath

save_image(img, lg, fs, ipath, save_path) ==
    LET path == SavePath(save_path, ipath)
        w == cv2_imwrite(fs, path, img)
    IN  IF w.exc = ""
        THEN Outcome(img, logging_info(lg, "save_done", <<path>>), w.fs, TRUE,
                     IF w.ret THEN "ok" ELSE "false", path, ~w.ret, "")
        ELSE IF ExceptException(w.exc)
        THEN Outcome(img, logging_error(lg, "save_error", <<w.exc>>), fs, TRUE,
                     "raise", path, TRUE, "")
        ELSE Outcome(img, lg, fs, TRUE, "raise", path, TRUE, w.exc)

\* "if save_after: self.save_image(save_path)" at the end of a try block whose
\* handler logs errmsg
SaveAfter(img, lg, fs, ipath, save_after, save_path, errmsg) ==
    IF ~save_after THEN Outcome(img, lg, fs, TRUE, "none", <<>>, FALSE, "")
    ELSE LET sv == save_image(img, lg, fs, ipath, save_path)
         IN  IF sv.escaped # "" /\ ExceptException(sv.escaped)
             THEN [sv EXCEPT !.log = logging_error(sv.log, errmsg, <<sv.escaped>>),
                             !.escaped = ""]
             ELSE sv

\* a transform whose library step raised exc before the buffer was assigned
Failed(img, lg, fs, errmsg, exc) ==
    IF ExceptException(exc)
    THEN Outcome(img, logging_error(lg, errmsg, <<exc>>), fs, FALSE, "none", <<>>, TRUE, "")
    ELSE Outcome(img, lg, fs, FALSE, "none", <<>>, TRUE, exc)

\* the assignment as it would be if the library gave back no array instead of
\* raising, and that were stored
AssignedAlways(old, r) == r.val

\* "self.image_array = <library call>": the attribute is assigned once the
\* call has returned, and keeps its value when the call raises
Assigned(old, r) == IF r.ok THEN r.val ELSE old

\* the dsize as it would be with rows and columns exchanged
WarpSizeSwapped(rows, cols) == [width |-> rows, height |-> cols]

\* line 103: the dsize given to warpAffine is (cols, rows)
WarpSize(rows, cols) == [width |-> cols, height |-> rows]

rotate_image(img, lg, fs, ipath, angle, save_after, save_path) ==
    LET rows == img.rows
        cols == img.cols
        M == cv2_getRotationMatrix2D(cols, rows, angle)
        r == cv2_warpAffine(img, M, WarpSize(rows, cols).width, WarpSize(rows, cols).height)
    IN  IF r.ok
        THEN SaveAfter(Assigned(img, r), logging_info(lg, "rotate_done", <<angle>>),
                       fs, ipath, save_after, save_path, "rotate_error")
        ELSE Failed(Assigned(img, r), lg, fs, "rotate_error", r.exc)

\* the dsize as it would be with width and height exchanged
DSizeSwapped(width, height) == [width |-> height, height |-> width]

\* line 126: the dsize given to resize is (width, height)
DSize(width, height) == [width |-> width, height |-> height]

resize_image(img, lg, fs, width, height, interpolation) ==
    LET r == cv2_resize(img, DSize(width, height).width, DSize(width, height).height,
                        interpolation)
    IN  IF r.ok
        THEN Outcome(Assigned(img, r), logging_info(lg, "resize_done", <<width, height>>),
                     fs, TRUE, "none", <<>>, FALSE, "")
        ELSE Failed(Assigned(img, r), lg, fs, "resize_error", r.exc)

\* the slice as it would be with the axes exchanged
CropSliceSwapped(img, x, y, width, height) == Slice2D(img, x, x + width, y, y + height)

\* line 145: self.image_array[y : y + height, x : x + width]; slice bounds
\* that are not integers raise TypeError
CropSlice(img, x, y, width, height) == Slice2D(img, y, y + height, x, x + width)

crop_image(img, lg, fs, ipath, a, save_after, save_path) ==
    IF a.integral
    THEN SaveAfter(CropSlice(img, a.x, a.y, a.width, a.height),
                   logging_info(lg, "crop_done", <<a.x, a.y, a.width, a.height>>),
                   fs, ipath, save_after, save_path, "crop_error")
    ELSE Failed(img, lg, fs, "crop_error", "TypeError")

\* the cast as it would be without astype, and with the clip range of a
\* unit-scaled image
NoiseCastNoAstype(noisy) == np_clip(noisy, 0, 255)
NoiseCastUnitRange(noisy) == astype_uint8(np_clip(noisy, 0, 1))

\* line 181: np.clip(noisy_image, 0, 255).astype(np.uint8)
NoiseCast(noisy) == astype_uint8(np_clip(noisy, 0, 255))

add_gaussian_noise(img, lg, fs, ipath, mean10, var100, seed, save_after, save_path) ==
    LET gaussian == np_random_normal(mean10, var100, img.rows, img.cols, seed)
    IN  IF gaussian.ok
        THEN SaveAfter(NoiseCast(np_add(img, gaussian.val)),
                       logging_info(lg, "noise_done", <<>>),
                       fs, ipath, save_after, save_path, "noise_error")
        ELSE Failed(img, lg, fs, "noise_error", gaussian.exc)

\* lines 196-197: base, ext = os.path.splitext(path); f"{base}{suffix}{ext}"
ProcessedPath(ipath, suffix) ==
    os_path_splitext(ipath).base \o suffix \o os_path_splitext(ipath).ext

save_processed_image(img, lg, fs, ipath, suffix) ==
    LET new_path == ProcessedPath(ipath, suffix)
        sv == save_image(img, lg, fs, ipath, Some(new_path))
    IN  IF sv.escaped = ""
        THEN [sv EXCEPT !.log = logging_info(sv.log, "processed_save_done", <<new_path>>)]
        ELSE IF ExceptException(sv.escaped)
        THEN [sv EXCEPT !.log = logging_error(sv.log, "processed_save_error", <<sv.escaped>>),
                        !.escaped = ""]
        ELSE sv

\* plt.imshow / plt.show either draw the buffer or raise (no display, ...)
show_image(img, lg, fs, drawn) ==
    IF drawn
    THEN Outcome(img, logging_info(lg, "show_done", <<>>), fs, TRUE, "none", <<>>, FALSE, "")
    ELSE Failed(img, lg, fs, "show_error", "RuntimeError")

(***************************************************************************)
(* __init__: lines 23-42.  What the try block has done when it ends: the   *)
(* attribute as far as it was assigned, the lines logged, and the          *)
(* exception that ended it ("" when it ran to its end).                    *)
(***************************************************************************)
InitStep(img, lg, exc) == [image |-> img, log |-> lg, exc |-> exc]

InitTry(fs, path, histogram_enhancement, lg) ==
    IF path \notin DOMAIN fs THEN InitStep(NoArray, lg, "FileNotFoundError")
    ELSE IF fs[path].bands < 1 THEN InitStep(NoArray, lg, "AttributeError")
    ELSE
      LET raw == fs[path].arr
          n == cv2_normalize(raw)
          a1 == IF raw.dtype # "uint8" THEN astype_uint8(n.val) ELSE raw
          lg1 == IF raw.dtype # "uint8" THEN logging_info(lg, "normalize_done", <<>>) ELSE lg
          e == cv2_equalizeHist(a1)
      IN  IF raw.dtype # "uint8" /\ ~n.ok THEN InitStep(raw, lg, n.exc)
          ELSE IF ~histogram_enhancement THEN InitStep(a1, lg1, "")
          ELSE IF ~e.ok THEN InitStep(a1, lg1, e.exc)
          ELSE InitStep(e.val, logging_info(lg1, "equalize_done", <<>>), "")

\* the handler as it would be without sys.exit
InitHandlerNoExit(t) ==
    IF t.exc = "" THEN [pc |-> "ready", code |-> 0, log |-> t.log]
    ELSE [pc |-> "ready", code |-> 0,
          log |-> logging_error(t.log, "init_error", <<t.exc>>)]

\* lines 40-42: the handler of __init__ logs and calls sys.exit(1)
InitHandler(t) ==
    IF t.exc = "" THEN [pc |-> "ready", code |-> 0, log |-> t.log]
    ELSE IF ExceptException(t.exc)
    THEN [pc |-> "exited", code |-> 1,
          log |-> logging_error(t.log, "init_error", <<t.exc>>)]
    ELSE [pc |-> "raised", code |-> 0, log |-> t.log]

(***************************************************************************)
(* The arguments the calls are tried with                                  *)
(***************************************************************************)
OutPath == <<"o", ".", "png">>
NoDirPath == <<"nodir", "/", "o", ".", "png">>

ConstructPaths == {SrcA, SrcB, SrcC, SrcE, SrcZ, Missing}
Angles == {0, 45, 90}
SaveOptions == {[after |-> FALSE, path |-> None],
                [after |-> TRUE, path |-> None],
                [after |-> TRUE, path |-> Some(OutPath)]}
SaveDefaults == {sv \in SaveOptions : sv.path = None}
Sizes == {<<0, 2>>, <<1, 2>>, <<3, 1>>}
Interpolations == {0, INTER_LINEAR}
CropArgs ==
    {[x |-> x, y |-> y, width |-> w, height |-> h, integral |-> TRUE] :
        x \in {0, 1}, y \in {0, 1}, w \in {1, 3}, h \in {2}}
    \cup {[x |-> -1, y |-> 0, width |-> 1, height |-> 2, integral |-> TRUE],
          [x |-> 0, y |-> 0, width |-> 1, height |-> 1, integral |-> FALSE]}
NoiseArgs ==
    {[mean10 |-> m, var100 |-> 0, seed |-> 0] : m \in {0, 100, -5}}
    \cup {[mean10 |-> 0, var100 |-> 1, seed |-> sd] : sd \in {0, 1}}
    \cup {[mean10 |-> 0, var100 |-> -1, seed |-> 0]}
SavePaths == {None, Some(<<>>), Some(OutPath), Some(NoDirPath)}
Suffixes == {<<"_processed">>, <<>>}

(***************************************************************************)
(* State machine                                                           *)
(***************************************************************************)
NoCall == [op |-> "none", args |-> <<>>, pre |-> NoArray, pre_path |-> <<>>,
           pre_files |-> Disk, mark |-> 0,
           computed |-> FALSE, write |-> "none", target |-> <<>>,
           libfail |-> FALSE, escaped |-> "", ret |-> None]

Init ==
    /\ pc = "init"
    /\ exit_code = 0
    /\ image_path = <<>>
    /\ image_array = NoArray
    /\ log = <<>>
    /\ files = Disk
    /\ calls = 0
    /\ last = NoCall

\* Preprocessing(image_path, histogram_enhancement)
Construct ==
    /\ pc = "init"
    /\ \E path \in ConstructPaths, histogram_enhancement \in BOOLEAN :
         LET t == InitTry(files, path, histogram_enhancement, log)
             h == InitHandler(t)
         IN  /\ image_path' = path
             /\ image_array' = t.image
             /\ log' = h.log
             /\ pc' = h.pc
             /\ exit_code' = h.code
             /\ last' = [NoCall EXCEPT !.op = "__init__",
                                       !.args = <<path, histogram_enhancement>>,
                                       !.computed = (t.exc = ""),
                                       !.libfail = (t.exc # ""),
                                       !.escaped = IF h.pc = "raised" THEN t.exc ELSE ""]
    /\ UNCHANGED <<files, calls>>

\* the object takes a call while the process runs and the bound allows it
CanCall == pc = "ready" /\ calls < MaxCalls

\* the state after a call of op with args whose outcome is o and which gave
\* ret back to its caller (None for the methods that return nothing)
Return(op, args, o, ret) ==
    /\ image_array' = o.image
    /\ log' = o.log
    /\ files' = o.files
    /\ pc' = IF o.escaped = "" THEN "ready" ELSE "raised"
    /\ calls' = calls + 1
    /\ last' = [op |-> op, args |-> args, pre |-> image_array, pre_path |-> image_path,
                pre_files |-> files, mark |-> Len(log),
                computed |-> o.computed, write |-> o.write, target |-> o.target,
                libfail |-> o.libfail, escaped |-> o.escaped, ret |-> ret]
    /\ UNCHANGED <<exit_code, image_path>>

ShowImage ==
    /\ CanCall
    /\ \E drawn \in BOOLEAN :
         Return("show_image", <<>>, show_image(image_array, log, files, drawn), None)

SaveImage ==
    /\ CanCall
    /\ \E save_path \in SavePaths :
         Return("save_image", [save_path |-> save_path],
                save_image(image_array, log, files, image_path, save_path), None)

\* get_image, get_image_array, get_image_path, get_image_dtype: return a field
Getter(op, field) ==
    /\ CanCall
    /\ Return(op, <<>>, Outcome(image_array, log, files, TRUE, "none", <<>>, FALSE, ""),
              Some(field))

GetImage == Getter("get_image", image_array)
GetImageArray == Getter("get_image_array", image_array)
GetImagePath == Getter("get_image_path", image_path)
GetImageDtype == Getter("get_image_dtype", image_array.dtype)

RotateImage ==
    /\ CanCall
    /\ \E angle \in Angles, sv \in SaveOptions :
         Return("rotate_image", [angle |-> angle, save_after |-> sv.after, save_path |-> sv.path],
                rotate_image(image_array, log, files, image_path, angle, sv.after, sv.path), None)

ResizeImage ==
    /\ CanCall
    /\ \E sz \in Sizes, interpolation \in Interpolations :
         Return("resize_image",
                [width |-> sz[1], height |-> sz[2], interpolation |-> interpolation],
                resize_image(image_array, log, files, sz[1], sz[2], interpolation), None)

\* adjust_resolution calls resize_image with its own arguments
AdjustResolution ==
    /\ CanCall
    /\ \E sz \in Sizes, interpolation \in Interpolations :
         Return("adjust_resolution",
                [width |-> sz[1], height |-> sz[2], interpolation |-> interpolation],
                resize_image(image_array, log, files, sz[1], sz[2], interpolation), None)

CropImage ==
    /\ CanCall
    /\ \E a \in CropArgs, sv \in SaveDefaults :
         Return("crop_image", [crop |-> a, save_after |-> sv.after, save_path |-> sv.path],
                crop_image(image_array, log, files, image_path, a, sv.after, sv.path), None)

AddGaussianNoise ==
    /\ CanCall
    /\ \E a \in NoiseArgs, sv \in SaveDefaults :
         Return("add_gaussian_noise",
                [mean10 |-> a.mean10, var100 |-> a.var100, seed |-> a.seed,
                 save_after |-> sv.after, save_path |-> sv.path],
                add_gaussian_noise(image_array, log, files, image_path,
                                   a.mean10, a.var100, a.seed, sv.after, sv.path), None)

SaveProcessedImage ==
    /\ CanCall
    /\ \E suffix \in Suffixes :
         Return("save_processed_image", [suffix |-> suffix],
                save_processed_image(image_array, log, files, image_path, suffix), None)

Next ==
    \/ Construct
    \/ ShowImage
    \/ SaveImage
    \/ GetImage
    \/ GetImageArray
    \/ GetImagePath
    \/ GetImageDtype
    \/ RotateImage
    \/ ResizeImage
    \/ CropImage
    \/ AdjustResolution
    \/ AddGaussianNoise
    \/ SaveProcessedImage

Spec == Init /\ [][Next]_vars


(***************************************************************************)
(* Properties                                                              *)
(***************************************************************************)
\* the lines the last call wrote to the log
Appended == SubSeq(log, last.mark + 1, Len(log))

HasLine(level, msgs) ==
    \E i \in 1..Len(Appended) : Appended[i].level = level /\ Appended[i].msg \in msgs

HasError == \E i \in 1..Len(Appended) : Appended[i].level = "ERROR"

Accessors == {"get_image", "get_image_array", "get_image_path", "get_image_dtype"}
ResizeOps == {"resize_image", "adjust_resolution"}
SavingTransforms == {"rotate_image", "crop_image", "add_gaussian_noise"}
Transforms == SavingTransforms \cup ResizeOps
Methods == Transforms \cup {"save_image", "save_processed_image", "show_image"}

\* C1: after a successful construction and any calls, the buffer's element
\* type is unsigned 8-bit and every sample is an integer in 0..255.
C1_BufferIsUint8 ==
    pc = "ready" =>
        /\ image_array.dtype = "uint8"
        /\ image_array.den = 1
        /\ Len(image_array.data) = image_array.rows * image_array.cols
        /\ \A i \in 1..Len(image_array.data) : image_array.data[i] \in 0..255

\* a noise call has rewritten a buffer that was loaded from 16-bit band data
C1_Witness ==
    /\ pc = "ready"
    /\ last.op = "add_gaussian_noise"
    /\ last.computed
    /\ Disk[image_path].arr.dtype = "int16"
    /\ image_array # last.pre
    /\ \E i \in 1..Len(image_array.data) : image_array.data[i] = 255

\* C2: rotate (any angle), noise, save, save-with-suffix, display and the
\* accessors leave the buffer's rows and columns as they were.
C2_DimensionsKept ==
    last.op \in (Methods \cup Accessors) \ (ResizeOps \cup {"crop_image"}) =>
        /\ image_array.rows = last.pre.rows
        /\ image_array.cols = last.pre.cols

\* a rotation by 45 degrees has been computed on a buffer that is not square
C2_Witness ==
    /\ last.op = "rotate_image"
    /\ last.args.angle = 45
    /\ last.computed
    /\ last.pre.rows # last.pre.cols
    /\ image_array # last.pre

\* C3 as stated: once Resize(W, H) or AdjustResolution(W, H) with positive W
\* and H has returned, the buffer is H rows by W columns, whatever it was.
C3_Original ==
    (last.op \in ResizeOps /\ last.args.width > 0 /\ last.args.height > 0) =>
        /\ image_array.rows = last.args.height
        /\ image_array.cols = last.args.width

\* C3 amended: with positive W and H on a non-empty buffer the result is
\* exactly H rows by W columns of unsigned 8-bit samples; on an empty buffer
\* or with a non-positive W or H the call logs an error and leaves the buffer
\* as it was.
C3_ResizeDims ==
    last.op \in ResizeOps =>
        IF last.args.width > 0 /\ last.args.height > 0 /\ ~IsEmpty(last.pre)
        THEN /\ image_array.rows = last.args.height
             /\ image_array.cols = last.args.width
             /\ Len(image_array.data) = last.args.height * last.args.width
             /\ ~HasError
        ELSE /\ image_array = last.pre
             /\ HasLine("ERROR", {"resize_error"})

\* a resize has changed the shape of the buffer
C3_Witness ==
    /\ last.op \in ResizeOps
    /\ last.computed
    /\ last.args.width # last.args.height
    /\ <<image_array.rows, image_array.cols>> # <<last.pre.rows, last.pre.cols>>

\* C4: Crop(x, y, width, height) with non-negative integers on an R x C
\* buffer logs no crop error, raises nothing, and leaves exactly rows
\* y..min(y+height,R)-1 and columns x..min(x+width,C)-1 of the old buffer;
\* without saveAfter it logs no error at all; Crop(0, 0, C, R) changes nothing.
C4_CropIsSlice ==
    (/\ last.op = "crop_image"
     /\ last.args.crop.integral
     /\ last.args.crop.x >= 0 /\ last.args.crop.y >= 0
     /\ last.args.crop.width >= 0 /\ last.args.crop.height >= 0) =>
        LET a == last.args.crop
            R == last.pre.rows
            C == last.pre.cols
        IN  /\ last.escaped = ""
            /\ last.computed
            /\ ~HasLine("ERROR", {"crop_error"})
            /\ HasLine("INFO", {"crop_done"})
            /\ ~last.args.save_after => ~HasError
            /\ image_array.rows = Min(a.height, Max(0, R - a.y))
            /\ image_array.cols = Min(a.width, Max(0, C - a.x))
            /\ image_array.dtype = last.pre.dtype
            /\ Len(image_array.data) = image_array.rows * image_array.cols
            /\ \A r \in 0..(image_array.rows - 1), c \in 0..(image_array.cols - 1) :
                 At(image_array, r, c) = At(last.pre, a.y + r, a.x + c)
            /\ (a.x = 0 /\ a.y = 0 /\ a.width = C /\ a.height = R) =>
                 image_array = last.pre

\* a crop whose request went past the extent gave a smaller, non-empty result
C4_Witness ==
    /\ last.op = "crop_image"
    /\ last.args.crop.integral
    /\ last.args.crop.x > 0 /\ last.args.crop.y > 0
    /\ image_array.rows > 0 /\ image_array.rows < last.args.crop.height
    /\ image_array.cols > 0 /\ image_array.cols < last.args.crop.width

\* C5 as stated: AddGaussianNoise(mean, variance = 0) leaves every sample as
\* it was, for every mean.
C5_Original ==
    (last.op = "add_gaussian_noise" /\ last.args.var100 = 0) =>
        image_array.data = last.pre.data

\* C5 amended: AddGaussianNoise with mean 0 and variance 0 leaves the buffer
\* (samples, dimensions, element type) as it was.
C5_ZeroNoiseKeepsBuffer ==
    (last.op = "add_gaussian_noise" /\ last.args.var100 = 0 /\ last.args.mean10 = 0) =>
        /\ image_array = last.pre
        /\ last.computed

\* noise of mean 0 and variance 0 has been added to a buffer with samples
C5_Witness ==
    /\ last.op = "add_gaussian_noise"
    /\ last.args.var100 = 0
    /\ last.args.mean10 = 0
    /\ last.computed
    /\ ~IsEmpty(last.pre)
    /\ \E i \in 1..Len(last.pre.data) : last.pre.data[i] > 1

\* C6: no transform, save or display call lets a failure reach its caller;
\* when a library step of the call failed, the call has returned, the log
\* has gained an error-level line, and the object takes further calls.
C6_FailuresLoggedNotRaised ==
    last.op \in Methods =>
        /\ last.escaped = ""
        /\ pc = "ready"
        /\ last.libfail => HasError

\* C7: a construction whose open, band read, normalization or equalization
\* failed has logged an error-level line last and ended the process with a
\* non-zero status; no method was or will be called on that object.
C7_LoadFailureIsFatal ==
    /\ (last.op = "__init__" /\ last.libfail) =>
          /\ pc = "exited"
          /\ exit_code # 0
          /\ Len(log) > 0
          /\ log[Len(log)].level = "ERROR"
          /\ log[Len(log)].msg = "init_error"
    /\ pc = "exited" => (calls = 0 /\ last.op = "__init__" /\ ~ENABLED Next)
    /\ calls > 0 => (pc \in {"ready", "raised"} /\ exit_code = 0)

\* the raster could not be opened and the process has exited
C7_Witness ==
    /\ pc = "exited"
    /\ image_path = Missing
    /\ exit_code = 1

\* where the extension of a path starts: at the last dot of the last
\* component that has something other than dots before it in that component
ExtensionStart(p) ==
    LET name0 == IF \E i \in 1..Len(p) : p[i] = "/"
                 THEN 1 + CHOOSE i \in 1..Len(p) :
                            p[i] = "/" /\ \A j \in (i + 1)..Len(p) : p[j] # "/"
                 ELSE 1
        dots == {i \in name0..Len(p) :
                    /\ p[i] = "."
                    /\ (\A j \in (i + 1)..Len(p) : p[j] # ".")
                    /\ (\E k \in name0..(i - 1) : p[k] # ".")}
    IN  IF dots = {} THEN Len(p) + 1 ELSE CHOOSE i \in dots : TRUE

\* the path a call is to write to; <<>> when it writes nothing
ExpectedTarget ==
    CASE last.op = "save_processed_image" ->
            SubSeq(last.pre_path, 1, ExtensionStart(last.pre_path) - 1)
            \o last.args.suffix
            \o SubSeq(last.pre_path, ExtensionStart(last.pre_path), Len(last.pre_path))
      [] last.op = "save_image" \/ (last.op \in SavingTransforms /\ last.args.save_after
                                    /\ last.computed) ->
            IF last.args.save_path.some /\ last.args.save_path.val # <<>>
            THEN last.args.save_path.val
            ELSE last.pre_path
      [] OTHER -> <<>>

C9_LogMatchesWrites ==
    last.op \in (SavingTransforms \cup {"save_image", "save_processed_image"}) =>
        /\ HasLine("INFO", {"save_done", "processed_save_done"}) => last.write = "ok"
        /\ last.write \in {"false", "raise"} =>
              (HasError /\ ~HasLine("INFO", {"save_done", "processed_save_done"}))

\* the buffer a transform leaves when its computation succeeds, whatever the
\* save after it does
Transformed ==
    CASE last.op = "rotate_image" ->
            rotate_image(last.pre, <<>>, last.pre_files, last.pre_path,
                         last.args.angle, FALSE, None).image
      [] last.op = "crop_image" ->
            crop_image(last.pre, <<>>, last.pre_files, last.pre_path,
                       last.args.crop, FALSE, None).image
      [] last.op = "add_gaussian_noise" ->
            add_gaussian_noise(last.pre, <<>>, last.pre_files, last.pre_path,
                               last.args.mean10, last.args.var100, last.args.seed,
                               FALSE, None).image
      [] OTHER -> image_array

\* C10: a transform whose computation failed leaves the buffer (samples,
\* dimensions, element type) as it was; a transform that was computed and
\* whose save failed keeps the transformed buffer.
C10_FailedTransformKeepsBuffer ==
    last.op \in Transforms =>
        /\ ~last.computed => (image_array = last.pre /\ last.write = "none")
        /\ (last.computed /\ last.write \in {"false", "raise"}) =>
              image_array = Transformed

\* a resize with positive sizes has failed on a buffer that a crop had emptied
C10_Witness ==
    /\ last.op = "resize_image"
    /\ last.args.width > 0 /\ last.args.height > 0
    /\ IsEmpty(last.pre)
    /\ ~last.computed
    /\ image_array = last.pre


====
